---- MODULE Spec2Model ----
(***************************************************************************)
(* FGDB: the dual-graph engine of configure.py / operation.py /            *)
(* function_analysis.py.  A Graph Database (Management Graph MG and        *)
(* Operation Graph OG) is loaded from a snapshot, mutated by one configure *)
(* or execute pass over a parsed list of assignments, and saved back.      *)
(*                                                                         *)
(* The `lib` package the scripts import (FunctionalGraph, load_fgdb,       *)
(* save_fgdb, parse_operation_file, generate_batch_file) is not among the  *)
(* sources; its operations are modelled from the specification (sections   *)
(* 4.1, 4.3-4.6) and are written in lower_case as in the import line.      *)
(* operation_graph / management_graph expose the networkx graph interface  *)
(* (nodes, add_node(n, **attr), number_of_nodes, number_of_edges): add_node*)
(* on a key that is present updates that node's attributes in place.       *)
(***************************************************************************)
EXTENDS Integers, Sequences, FiniteSets, TLC

VARIABLES
    disk,           \* the persisted snapshot (fgdb.pickle)
    fgdb,           \* the working copy of the running pass
    pc,             \* "idle" | "exec" | "exit": position of the running pass
    operations,     \* the parsed triple sequence of the running pass
    idx,            \* loop index of execute_operations (enumerate(operations, 1))
    executed_vars,  \* operation.py:60, identities minted by this pass
    batch_file,     \* the plan artifact, and whether this pass has written it
    clock,          \* the wall clock (datetime.now())
    outcome,        \* how the last pass ended
    lines,          \* function_analysis.py:16, the lines of the file read
    lineno,         \* position of the loop of analyze_functions
    ope_list,       \* function_analysis.py:22
    warnings,       \* diagnostics printed at function_analysis.py:44
    analysis,       \* the sets configure_fgdb derives (configure.py:53-83)
    hist            \* bookkeeping of the passes (history only): passes started,
                    \* triples handed to execute passes, the triple sequence of
                    \* the last completed configure pass, and for the running
                    \* pass whether a triple raised and how many were attempted

aux == <<lines, lineno, ope_list, warnings, analysis>>

vars == <<disk, fgdb, pc, operations, idx, executed_vars, batch_file, clock,
          outcome, hist, aux>>

----------------------------------------------------------------------------
(* Bounds *)
MaxOps == 2         \* triples per assignment file
MaxRuns == 3        \* passes (configure or execute) started
MaxSteps == 2       \* triples handed to execute passes, over all passes
MaxClock == 2       \* clock ticks
MaxLines == 3       \* lines of an assignment file read by the parser

(* Values *)
NullTs == 0
Root == "root"

Names == {"x", "y", "z"}
Funcs == {"f", "g"}

Triple(o, f, i) == [out |-> o, fn |-> f, ins |-> i]

\* the assignments the files are made of: y and z are each produced by one
\* and consumed by the other, z is consumed twice by one call, x is only read
Triples ==
    { Triple("z", "f", <<"x", "y">>),
      Triple("y", "g", <<"z", "z">>) }

RECURSIVE SeqsUpTo(_, _)
SeqsUpTo(S, n) ==
    IF n = 0 THEN {<<>>}
    ELSE LET shorter == SeqsUpTo(S, n - 1)
         IN  shorter \cup {Append(s, e) : s \in {t \in shorter : Len(t) = n - 1}, e \in S}

Batches == SeqsUpTo(Triples, MaxOps)

Range(s) == {s[i] : i \in DOMAIN s}

----------------------------------------------------------------------------
(* Graph Store *)

Key(n) == <<n.name, n.ts, n.seq>>
SeedKey(name) == <<name, NullTs, 0>>

OGNode(name, ts, seq, ntype, dtype, at) ==
    [name |-> name, ts |-> ts, seq |-> seq, node_type |-> ntype,
     data_type |-> dtype, created_at |-> at]

MGNode(name, kind, dtype) ==
    [name |-> name, kind |-> kind, data_type |-> dtype]

\* the database the bootstrap step leaves: a root node in each graph
EmptyFgdb ==
    [fb  |-> {},
     mg  |-> {MGNode(Root, "root", "none")},
     mge |-> {},
     og  |-> << OGNode(Root, NullTs, 0, "root", "none", 0) >>,
     oge |-> << >>]

OGKeys(g) == {Key(g.og[i]) : i \in DOMAIN g.og}
MGNames(g) == {n.name : n \in g.mg}

\* `var in fgdb.operation_graph.nodes`: the node keyed by the bare name
OGHasNode(g, var) == SeedKey(var) \in OGKeys(g)

\* operation_graph.add_node(key, **attrs)
OGAddNode(g, node) ==
    IF Key(node) \in OGKeys(g)
    THEN [g EXCEPT !.og = [i \in DOMAIN g.og |->
                             IF Key(g.og[i]) = Key(node) THEN node ELSE g.og[i]]]
    ELSE [g EXCEPT !.og = Append(g.og, node)]

\* load_fgdb / save_fgdb: the snapshot round-trips exactly
load_fgdb(d) == d
save_fgdb(g) == g

----------------------------------------------------------------------------
(* Registration Engine (lib.FunctionalGraph) *)

\* register_function(name): idempotent creation of the MG function node
register_function(g, name) ==
    IF name \in g.fb THEN g
    ELSE [g EXCEPT !.fb = @ \cup {name},
                   !.mg = @ \cup {MGNode(name, "function", "none")}]

\* register_independent_variable(name): idempotent MG variable node and the
\* OG seed instance (null version token, created_at = null)
register_independent_variable(g, name) ==
    LET g1 == IF name \in MGNames(g) THEN g
              ELSE [g EXCEPT !.mg = @ \cup
                       {MGNode(name, "variable", "pure_independent")}]
    IN  IF OGHasNode(g1, name) THEN g1
        ELSE OGAddNode(g1, OGNode(name, NullTs, 0, "data_block", "pure_independent", 0))

----------------------------------------------------------------------------
(* Variable Classifier, as configure_fgdb computes it *)

RECURSIVE Concat(_)
Concat(ss) == IF ss = <<>> THEN <<>> ELSE Head(ss) \o Concat(Tail(ss))

Functions(ops) == {ops[i].fn : i \in DOMAIN ops}
DependentVariables(ops) == {ops[i].out : i \in DOMAIN ops}
IndependentVariables(ops) == UNION {Range(ops[i].ins) : i \in DOMAIN ops}
\* a variant that subtracts only the outputs of the first assignment
PureIndependentVarsFirst(ops) ==
    IndependentVariables(ops) \ (IF ops = <<>> THEN {} ELSE {ops[1].out})

\* configure.py:64
PureIndependentVars(ops) == IndependentVariables(ops) \ DependentVariables(ops)
IntermediateVars(ops) == IndependentVariables(ops) \cap DependentVariables(ops)

\* function_analysis.py, on the list form of the same data
GetIndependentVarsList(ops) == Concat([i \in DOMAIN ops |-> ops[i].ins])
FindPureIndependentVars(ops) ==
    LET y_list == [i \in DOMAIN ops |-> ops[i].out]
    IN  SelectSeq(GetIndependentVarsList(ops), LAMBDA x : x \notin Range(y_list))

\* sorted(...) of a set of names
NameOrder == <<"f", "g", "x", "y", "z">>
Sorted(S) == SelectSeq(NameOrder, LAMBDA n : n \in S)

----------------------------------------------------------------------------
(* configure_fgdb, from the parsed operations to the database it saves *)

RECURSIVE RegisterFunctions(_, _)
RegisterFunctions(g, fs) ==
    IF fs = <<>> THEN g
    ELSE RegisterFunctions(register_function(g, Head(fs)), Tail(fs))

RECURSIVE RegisterIndependents(_, _)
RegisterIndependents(g, vs) ==
    IF vs = <<>> THEN g
    ELSE RegisterIndependents(register_independent_variable(g, Head(vs)), Tail(vs))

\* a variant without the existence check of line 76
RegisterIntermediateUnguarded(g, var_name) ==
    OGAddNode(g, OGNode(var_name, NullTs, 0, "data_block", "intermediate", 0))

\* configure.py:86-94
RegisterIntermediate(g, var_name) ==
    IF ~OGHasNode(g, var_name)
    THEN OGAddNode(g, OGNode(var_name, NullTs, 0, "data_block", "intermediate", 0))
    ELSE g

\* a variant that leaves the intermediates to the execute pass
RegisterIntermediatesDeferred(g, vs) == g

RECURSIVE RegisterIntermediates(_, _)
RegisterIntermediates(g, vs) ==
    IF vs = <<>> THEN g
    ELSE RegisterIntermediates(RegisterIntermediate(g, Head(vs)), Tail(vs))

ConfigureBody(g, ops) ==
    LET g1 == RegisterFunctions(g, Sorted(Functions(ops)))
        g2 == RegisterIndependents(g1, Sorted(PureIndependentVars(ops)))
    IN  RegisterIntermediates(g2, Sorted(IntermediateVars(ops)))

----------------------------------------------------------------------------
(* Execution Engine (lib.FunctionalGraph.execute_operation) *)

TokenLess(a, b) == a.ts < b.ts \/ (a.ts = b.ts /\ a.seq < b.seq)

Instances(g, name) == {i \in DOMAIN g.og : g.og[i].name = name}

\* step 3: the greatest version token, the node added last on a tie
MostRecent(g, name) ==
    CHOOSE i \in Instances(g, name) :
        \A j \in Instances(g, name) :
            \/ TokenLess(g.og[j], g.og[i])
            \/ (~TokenLess(g.og[i], g.og[j]) /\ j <= i)

Max(S) == CHOOSE m \in S : \A k \in S : k <= m

\* step 4: the timestamp, and a tie-break counter within one clock tick
MintToken(g, name, now) ==
    LET same == {g.og[i].seq : i \in {j \in Instances(g, name) : g.og[j].ts = now}}
    IN  [ts |-> now, seq |-> IF same = {} THEN 0 ELSE Max(same) + 1]

\* steps 3-7; raises when an input has no instance at all
execute_operation(g, function_name, input_names, output_name, now) ==
    IF \E k \in DOMAIN input_names : Instances(g, input_names[k]) = {}
    THEN [ok |-> FALSE, g |-> g, id |-> SeedKey(output_name)]
    ELSE
    LET srcs == [k \in DOMAIN input_names |->
                    Key(g.og[MostRecent(g, input_names[k])])]
        tok  == MintToken(g, output_name, now)
        node == OGNode(output_name, tok.ts, tok.seq, "data_block", "intermediate", now)
        g1   == OGAddNode(g, node)
    IN  [ok |-> TRUE,
         g  |-> [g1 EXCEPT !.oge = @ \o [k \in DOMAIN input_names |->
                                            <<srcs[k], Key(node)>>]],
         id |-> Key(node)]

(* Plan Compiler (lib.generate_batch_file): one step per triple, in order *)
generate_batch_file(ops) ==
    [i \in DOMAIN ops |-> [fn |-> ops[i].fn, args |-> ops[i].ins, out |-> ops[i].out]]

----------------------------------------------------------------------------
(* execute_operations: the body of one loop iteration, operation.py:62-98 *)

\* operation.py:68-71
MissingVars(g, independent_vars) ==
    SelectSeq(independent_vars, LAMBDA var : ~OGHasNode(g, var))

\* a variant that stamps the placeholder as configure.py:92 does
RECURSIVE AddMissingUnstamped(_, _, _)
AddMissingUnstamped(g, missing_vars, now) ==
    IF missing_vars = <<>> THEN g
    ELSE AddMissingUnstamped(
            OGAddNode(g, OGNode(Head(missing_vars), NullTs, 0,
                                "data_block", "intermediate", 0)),
            Tail(missing_vars), now)

\* operation.py:73-83
RECURSIVE AddMissing(_, _, _)
AddMissing(g, missing_vars, now) ==
    IF missing_vars = <<>> THEN g
    ELSE AddMissing(
            OGAddNode(g, OGNode(Head(missing_vars), NullTs, 0,
                                "data_block", "intermediate", now)),
            Tail(missing_vars), now)

\* a variant that adds every input without the existence check of line 70
AutoHealUnguarded(g, independent_vars, now) ==
    AddMissing(g, independent_vars, now)

AutoHeal(g, independent_vars, now) ==
    AddMissing(g, MissingVars(g, independent_vars), now)

\* operation.py:86
NeedsRegistration(g, function_name) == function_name \notin g.fb

\* a variant that works on the snapshot again at every iteration
PreparedFromSnapshot(g, op, now) ==
    LET healed == AutoHeal(load_fgdb(disk), op.ins, now)
    IN  IF NeedsRegistration(healed, op.fn)
        THEN register_function(healed, op.fn)
        ELSE healed

\* operation.py:67-88: auto-heal of the inputs, then auto-registration
Prepared(g, op, now) ==
    LET healed == AutoHeal(g, op.ins, now)
    IN  IF NeedsRegistration(healed, op.fn)
        THEN register_function(healed, op.fn)
        ELSE healed

\* a variant that hands over the inputs as a set
ExecutedDeduplicated(g, op, now) ==
    execute_operation(g, op.fn, Sorted(Range(op.ins)), op.out, now)

\* operation.py:92, the arguments handed to execute_operation
Executed(g, op, now) ==
    execute_operation(g, op.fn, op.ins, op.out, now)

\* a variant that starts from a new database instead of the loaded one
ConfigureFromScratch(d, ops) == ConfigureBody(EmptyFgdb, ops)

\* configure.py:33-94: load, classify, register
ConfigureFrom(d, ops) == ConfigureBody(load_fgdb(d), ops)

RECURSIVE Distinct(_)
Distinct(s) ==
    IF s = <<>> THEN <<>>
    ELSE LET front == Distinct(SubSeq(s, 1, Len(s) - 1))
         IN  IF s[Len(s)] \in Range(front) THEN front ELSE Append(front, s[Len(s)])

\* a variant that compiles each distinct triple once
CompiledPlanDistinct(ops) == generate_batch_file(Distinct(ops))

\* operation.py:55-56: the parsed operations, as they are, go to the compiler
CompiledPlan(ops) == generate_batch_file(ops)

NoAnalysis ==
    [done |-> FALSE, reordered |-> FALSE, functions |-> {}, dependent |-> {},
     independent |-> {}, pure_independent |-> {}, intermediate |-> {}, xmy |-> <<>>]

EmptyHist ==
    [runs |-> 0, steps |-> 0, pass |-> "none", configured |-> <<>>,
     repeated |-> FALSE, raised |-> FALSE, attempted |-> 0]

Init ==
    /\ disk = EmptyFgdb
    /\ fgdb = EmptyFgdb
    /\ pc = "idle"
    /\ operations = <<>>
    /\ idx = 1
    /\ executed_vars = <<>>
    /\ batch_file = [written |-> FALSE, steps |-> <<>>]
    /\ clock = 1
    /\ outcome = "none"
    /\ hist = EmptyHist
    /\ lines = <<>>
    /\ lineno = 1
    /\ ope_list = <<>>
    /\ warnings = 0
    /\ analysis = NoAnalysis

\* datetime.now() advances; it is read only inside the loop of an execute pass
Tick ==
    /\ clock < MaxClock
    /\ pc = "exec"
    /\ idx <= Len(operations)
    /\ clock' = clock + 1
    /\ UNCHANGED <<disk, fgdb, pc, operations, idx, executed_vars, batch_file,
                   outcome, hist>>
    /\ UNCHANGED aux

\* configure.py:45-48 / operation.py:47-50: nothing parsed, sys.exit(1)
EmptyInput(ops, pass) ==
    /\ ops = <<>>
    /\ operations' = ops
    /\ fgdb' = load_fgdb(disk)
    /\ outcome' = "EmptyInput"
    /\ hist' = [hist EXCEPT !.runs = @ + 1, !.pass = pass, !.repeated = FALSE,
                            !.raised = FALSE, !.attempted = 0]
    /\ batch_file' = [batch_file EXCEPT !.written = FALSE]
    /\ executed_vars' = <<>>
    /\ idx' = 1
    /\ pc' = "exit"
    /\ UNCHANGED <<disk, clock>>
    /\ UNCHANGED aux

\* configure_fgdb with a non-empty triple sequence: classify, register, save
Configure(ops) ==
    /\ ops # <<>>
    /\ operations' = ops
    /\ fgdb' = ConfigureFrom(disk, ops)
    /\ disk' = save_fgdb(fgdb')
    /\ outcome' = "saved"
    /\ hist' = [hist EXCEPT !.runs = @ + 1, !.pass = "configure",
                            !.configured = ops,
                            !.repeated = (ops = hist.configured),
                            !.raised = FALSE, !.attempted = 0]
    /\ batch_file' = [batch_file EXCEPT !.written = FALSE]
    /\ executed_vars' = <<>>
    /\ idx' = 1
    /\ pc' = "exit"
    /\ UNCHANGED clock
    /\ UNCHANGED aux

ConfigureFgdb ==
    /\ pc = "idle"
    /\ hist.runs < MaxRuns
    /\ \E ops \in Batches : EmptyInput(ops, "configure") \/ Configure(ops)

\* execute_operations up to the loop: load, parse, compile the plan
BeginExecute(ops) ==
    /\ ops # <<>>
    /\ hist.steps + Len(ops) <= MaxSteps
    /\ operations' = ops
    /\ fgdb' = load_fgdb(disk)
    /\ batch_file' = [written |-> TRUE, steps |-> CompiledPlan(ops)]
    /\ executed_vars' = <<>>
    /\ idx' = 1
    /\ pc' = "exec"
    /\ outcome' = "running"
    /\ hist' = [hist EXCEPT !.runs = @ + 1, !.steps = @ + Len(ops),
                            !.pass = "execute", !.repeated = FALSE,
                            !.raised = FALSE, !.attempted = 0]
    /\ UNCHANGED <<disk, clock>>
    /\ UNCHANGED aux

ExecuteOperations ==
    /\ pc = "idle"
    /\ hist.runs < MaxRuns
    /\ \E ops \in Batches : EmptyInput(ops, "execute") \/ BeginExecute(ops)

\* one iteration whose execute_operation returns
StepExecuted ==
    LET op == operations[idx]
        r  == Executed(Prepared(fgdb, op, clock), op, clock)
    IN  /\ r.ok
        /\ fgdb' = r.g
        /\ executed_vars' = Append(executed_vars, r.id)
        /\ idx' = idx + 1
        /\ hist' = [hist EXCEPT !.attempted = @ + 1]
        /\ UNCHANGED <<disk, pc, operations, batch_file, clock, outcome>>
        /\ UNCHANGED aux

\* one iteration whose execute_operation raises: caught at operation.py:96
StepSkipped ==
    LET op == operations[idx]
    IN  /\ fgdb' = Prepared(fgdb, op, clock)
        /\ idx' = idx + 1
        /\ hist' = [hist EXCEPT !.attempted = @ + 1, !.raised = TRUE]
        /\ UNCHANGED <<disk, pc, operations, executed_vars, batch_file, clock,
                       outcome>>
        /\ UNCHANGED aux

\* one iteration whose register_function raises at operation.py:88, outside
\* the try: the exception leaves execute_operations, main() exits with 1
StepAborted ==
    LET op == operations[idx]
    IN  /\ NeedsRegistration(AutoHeal(fgdb, op.ins, clock), op.fn)
        /\ fgdb' = AutoHeal(fgdb, op.ins, clock)
        /\ pc' = "exit"
        /\ outcome' = "aborted"
        /\ hist' = [hist EXCEPT !.attempted = @ + 1, !.raised = TRUE]
        /\ UNCHANGED <<disk, operations, idx, executed_vars, batch_file, clock>>
        /\ UNCHANGED aux

ExecuteStep ==
    /\ pc = "exec"
    /\ idx <= Len(operations)
    /\ (StepExecuted \/ StepSkipped \/ StepAborted)

\* operation.py:100-102
FinishExecute ==
    /\ pc = "exec"
    /\ idx > Len(operations)
    /\ disk' = save_fgdb(fgdb)
    /\ pc' = "exit"
    /\ outcome' = "saved"
    /\ UNCHANGED <<fgdb, operations, idx, executed_vars, batch_file, clock, hist>>
    /\ UNCHANGED aux

\* the process ends: only the snapshot and the plan artifact outlive it
Exit ==
    /\ pc = "exit"
    /\ pc' = "idle"
    /\ fgdb' = disk
    /\ operations' = <<>>
    /\ idx' = 1
    /\ executed_vars' = <<>>
    /\ outcome' = "none"
    /\ hist' = [hist EXCEPT !.pass = "none", !.repeated = FALSE,
                            !.raised = FALSE, !.attempted = 0]
    /\ UNCHANGED <<disk, batch_file, clock>>
    /\ UNCHANGED aux

Next ==
    \/ Tick
    \/ ConfigureFgdb
    \/ ExecuteOperations
    \/ ExecuteStep
    \/ FinishExecute
    \/ Exit

Spec == Init /\ [][Next]_vars

TypeOK ==
    /\ pc \in {"idle", "exec", "exit"}
    /\ operations \in Batches
    /\ clock \in 1..MaxClock
    /\ outcome \in {"none", "EmptyInput", "saved", "running", "aborted"}

----------------------------------------------------------------------------
(* The classifier on its own: every triple sequence over the names *)

\* one input, or two (possibly equal) inputs in the order of NameOrder
InputLists ==
    {<<a>> : a \in Names} \cup
    {p \in {<<a, b>> : a \in Names, b \in Names} : Sorted({p[1], p[2]})[1] = p[1]}
AllTriples == {Triple(o, f, i) : o \in Names, f \in Funcs, i \in InputLists}
AllBatches == SeqsUpTo(AllTriples, MaxOps)

\* configure.py:53-65 and 83, function_analysis.py:96-115
Classified(ops) ==
    [done |-> TRUE, reordered |-> FALSE,
     functions |-> Functions(ops),
     dependent |-> DependentVariables(ops),
     independent |-> IndependentVariables(ops),
     pure_independent |-> PureIndependentVars(ops),
     intermediate |-> IntermediateVars(ops),
     xmy |-> FindPureIndependentVars(ops)]

InitClassify ==
    /\ disk = EmptyFgdb
    /\ fgdb = EmptyFgdb
    /\ pc = "idle"
    /\ operations \in AllBatches
    /\ idx = 1
    /\ executed_vars = <<>>
    /\ batch_file = [written |-> FALSE, steps |-> <<>>]
    /\ clock = 1
    /\ outcome = "none"
    /\ hist = EmptyHist
    /\ lines = <<>>
    /\ lineno = 1
    /\ ope_list = <<>>
    /\ warnings = 0
    /\ analysis = NoAnalysis

Classify ==
    /\ ~analysis.done
    /\ analysis' = Classified(operations)
    /\ UNCHANGED <<disk, fgdb, pc, operations, idx, executed_vars, batch_file,
                   clock, outcome, hist, lines, lineno, ope_list, warnings>>

\* the same assignments in another order of the file
Reorder ==
    /\ analysis.done
    /\ \E i \in 1..(Len(operations) - 1) :
          operations' = [operations EXCEPT ![i] = operations[i + 1],
                                           ![i + 1] = operations[i]]
    /\ analysis' = [analysis EXCEPT !.reordered = TRUE]
    /\ UNCHANGED <<disk, fgdb, pc, idx, executed_vars, batch_file,
                   clock, outcome, hist, lines, lineno, ope_list, warnings>>

NextClassify == Classify \/ Reorder

SpecClassify == InitClassify /\ [][NextClassify]_vars

----------------------------------------------------------------------------
(* Assignment Parser: function_analysis.analyze_functions, on lines given as *)
(* tuples of characters                                                      *)

Alnum == {"x", "y", "z", "f", "g"}      \* [a-zA-Z0-9_], as far as the files go
Space == {" "}                          \* \s
ListChars == Alnum \cup {","} \cup Space  \* [a-zA-Z0-9_,\s]

\* str.strip()
RECURSIVE LStrip(_)
LStrip(s) == IF s # <<>> /\ Head(s) \in Space THEN LStrip(Tail(s)) ELSE s
RECURSIVE RStrip(_)
RStrip(s) ==
    IF s # <<>> /\ s[Len(s)] \in Space THEN RStrip(SubSeq(s, 1, Len(s) - 1)) ELSE s
Strip(s) == RStrip(LStrip(s))

\* the first position from i on whose character is not in class C
RECURSIVE RunEnd(_, _, _)
RunEnd(s, i, C) ==
    IF i <= Len(s) /\ s[i] \in C THEN RunEnd(s, i + 1, C) ELSE i

At(s, i, c) == i <= Len(s) /\ s[i] = c

\* re.match(pattern, line), function_analysis.py:33-34: the pattern is
\* anchored at the start of the line only; each group is a maximal run
MatchLine(s) ==
    LET a == RunEnd(s, 1, Alnum)
        b == RunEnd(s, a, Space)
        c == RunEnd(s, b + 1, Space)
        d == RunEnd(s, c, Alnum)
        e == RunEnd(s, d, Space)
        h == RunEnd(s, e + 1, ListChars)
    IN  IF /\ a > 1
           /\ At(s, b, "=")
           /\ d > c
           /\ At(s, e, "(")
           /\ h > e + 1
           /\ At(s, h, ")")
        THEN [ok |-> TRUE,
              y_var  |-> SubSeq(s, 1, a - 1),
              f_func |-> SubSeq(s, c, d - 1),
              x_vars |-> Strip(SubSeq(s, e + 1, h - 1))]
        ELSE [ok |-> FALSE, y_var |-> <<>>, f_func |-> <<>>, x_vars |-> <<>>]

Entry(m) == <<m.y_var, m.f_func, m.x_vars>>

\* function_analysis.py:28-29
Skippable(s) == s = <<>> \/ Head(s) = "#"

\* a variant of the loop body that gives up at the first line it cannot parse
AnalyzeLineStopping ==
    /\ pc = "idle"
    /\ lineno <= Len(lines)
    /\ LET line == Strip(lines[lineno])
           m    == MatchLine(line)
       IN  IF Skippable(line)
           THEN lineno' = lineno + 1 /\ UNCHANGED <<ope_list, warnings>>
           ELSE IF m.ok
           THEN /\ ope_list' = Append(ope_list, Entry(m))
                /\ lineno' = lineno + 1
                /\ UNCHANGED warnings
           ELSE /\ warnings' = warnings + 1
                /\ lineno' = Len(lines) + 1
                /\ UNCHANGED ope_list
    /\ UNCHANGED <<disk, fgdb, pc, operations, idx, executed_vars, batch_file,
                   clock, outcome, hist, lines, analysis>>

\* one iteration of the loop of function_analysis.py:25-44
AnalyzeLine ==
    /\ pc = "idle"
    /\ lineno <= Len(lines)
    /\ LET line == Strip(lines[lineno])
           m    == MatchLine(line)
       IN  IF Skippable(line)
           THEN UNCHANGED <<ope_list, warnings>>
           ELSE IF m.ok
           THEN ope_list' = Append(ope_list, Entry(m)) /\ UNCHANGED warnings
           ELSE warnings' = warnings + 1 /\ UNCHANGED ope_list
    /\ lineno' = lineno + 1
    /\ UNCHANGED <<disk, fgdb, pc, operations, idx, executed_vars, batch_file,
                   clock, outcome, hist, lines, analysis>>

\* the characters of a name as one string
RECURSIVE Join(_)
Join(cs) == IF cs = <<>> THEN "" ELSE Head(cs) \o Join(Tail(cs))

\* x_vars.split(',')
RECURSIVE Split(_)
Split(cs) ==
    LET k == RunEnd(cs, 1, Alnum \cup Space)
    IN  IF k > Len(cs) THEN <<cs>>
        ELSE <<SubSeq(cs, 1, k - 1)>> \o Split(SubSeq(cs, k + 1, Len(cs)))

\* lib.parse_operation_file: the triples, the input list split at the commas
\* and each element trimmed (as function_analysis.py:84 does)
parse_operation_file(entries) ==
    [i \in DOMAIN entries |->
        Triple(Join(entries[i][1]), Join(entries[i][2]),
               LET parts == Split(entries[i][3])
               IN  [k \in DOMAIN parts |-> Join(Strip(parts[k]))])]

\* the lines the files are made of
FileLines ==
    { <<"z", "=", "f", "(", "x", ",", "y", ")">>,
      <<" ", "y", " ", "=", " ", "g", "(", " ", "z", " ", ",", "z", " ", ")", " ">>,
      <<"x", "=", "f", "(", "z", ")", "#">>,
      << >>,
      <<" ", " ">>,
      <<"#", "z", "=", "f", "(", "x", ")">>,
      <<" ", "#", " ", "x">>,
      <<"z", "=", "f", "(", "x">>,
      <<"=", "f", "(", "x", ")">>,
      <<"z", "=", "f", "(", ")">> }

Files == SeqsUpTo(FileLines, MaxLines)

InitParse ==
    /\ disk = EmptyFgdb
    /\ fgdb = EmptyFgdb
    /\ pc = "idle"
    /\ operations = <<>>
    /\ idx = 1
    /\ executed_vars = <<>>
    /\ batch_file = [written |-> FALSE, steps |-> <<>>]
    /\ clock = 1
    /\ outcome = "none"
    /\ hist = EmptyHist
    /\ lines \in Files
    /\ lineno = 1
    /\ ope_list = <<>>
    /\ warnings = 0
    /\ analysis = NoAnalysis

\* configure.py:45-97 on what was parsed
ConfigureParsed ==
    /\ pc = "idle"
    /\ lineno > Len(lines)
    /\ LET ops == parse_operation_file(ope_list)
       IN  EmptyInput(ops, "configure") \/ Configure(ops)

NextParse == AnalyzeLine \/ ConfigureParsed

SpecParse == InitParse /\ [][NextParse]_vars

----------------------------------------------------------------------------
(* Properties *)

\* the loop iteration that has just processed operations[idx]
Iterated == pc = "exec" /\ idx' = idx + 1
Succeeded == Iterated /\ executed_vars' # executed_vars

UniqueKeys(g) ==
    \A i, j \in DOMAIN g.og : Key(g.og[i]) = Key(g.og[j]) => i = j

\* nodes of the working copy that the step added
Fresh == {i \in DOMAIN fgdb'.og : i > Len(fgdb.og)}
FreshInstances(name) ==
    {i \in Fresh : fgdb'.og[i].name = name /\ fgdb'.og[i].ts # NullTs}

\* every node present before the step is still there, untouched
NodesKept(old, new) ==
    /\ Len(new.og) >= Len(old.og)
    /\ \A i \in DOMAIN old.og : new.og[i] = old.og[i]

C1_Step ==
    Succeeded =>
        LET out == operations[idx].out
        IN  /\ NodesKept(fgdb, fgdb')
            /\ Cardinality(FreshInstances(out)) = 1
            /\ \A i \in FreshInstances(out) :
                  /\ Key(fgdb'.og[i]) \notin OGKeys(fgdb)
                  /\ executed_vars'[Len(executed_vars')] = Key(fgdb'.og[i])
            /\ \A i \in Fresh \ FreshInstances(out) : fgdb'.og[i].ts = NullTs

C2_RaiseIsSkipped ==
    (pc = "exit" /\ hist.pass = "execute" /\ hist.raised) =>
        /\ hist.attempted = Len(operations)
        /\ outcome = "saved"
        /\ disk = fgdb

----------------------------------------------------------------------------
\* the step that handles operations[idx], however it ends
Handled == pc = "exec" /\ idx <= Len(operations) /\ (idx' = idx + 1 \/ pc' = "exit")

\* input names of the triple that have no OG node at all before the step
Unknown(op) == {v \in Range(op.ins) : Instances(fgdb, v) = {}}

Placeholders(v) == {i \in Fresh : fgdb'.og[i].name = v /\ fgdb'.og[i].ts = NullTs}

C3_Step ==
    Handled =>
        LET op == operations[idx]
        IN  /\ NodesKept(fgdb, fgdb')
            /\ \A v \in Unknown(op) :
                  /\ Cardinality(Placeholders(v)) = 1
                  /\ \A i \in Placeholders(v) :
                        fgdb'.og[i] = OGNode(v, NullTs, 0, "data_block",
                                             "intermediate", clock)
                  /\ \A i \in Fresh :
                        fgdb'.og[i].name = v =>
                            i \in Placeholders(v) \cup FreshInstances(op.out)
            \* the loop goes on, unless register_function raises (line 88)
            /\ (op.fn \in fgdb.fb) => (pc' = "exec" /\ idx' = idx + 1)
            /\ (pc' = "exit") => (outcome' = "aborted" /\ op.fn \notin fgdb.fb)

----------------------------------------------------------------------------
\* C4: a successful execution of a triple adds as many OG edges as the
\* triple has inputs, duplicates counted, all of them into the new instance.
C4_Step ==
    Succeeded =>
        LET op == operations[idx]
        IN  /\ Len(fgdb'.oge) = Len(fgdb.oge) + Len(op.ins)
            /\ \A k \in DOMAIN fgdb.oge : fgdb'.oge[k] = fgdb.oge[k]
            /\ \A k \in DOMAIN op.ins :
                  fgdb'.oge[Len(fgdb.oge) + k][2] = executed_vars'[Len(executed_vars')]

C4_EdgeCount == [][C4_Step]_vars

\* y = g(z, z) executed twice: each time two (equal) edges
C4_Witness ==
    /\ pc = "exec"
    /\ operations = <<Triple("y", "g", <<"z", "z">>), Triple("y", "g", <<"z", "z">>)>>
    /\ Len(executed_vars) = 2
    /\ Len(fgdb.oge) = Len(disk.oge) + 4
    /\ fgdb.oge[Len(disk.oge) + 1] = fgdb.oge[Len(disk.oge) + 2]

----------------------------------------------------------------------------
\* the node of the working copy with this key
NodeOf(g, key) == CHOOSE i \in DOMAIN g.og : Key(g.og[i]) = key

\* identities of `name` minted so far by this pass
Minted(name) == SelectSeq(executed_vars, LAMBDA id : id[1] = name)

C5_Step ==
    Succeeded =>
        LET op  == operations[idx]
            new == executed_vars'[Len(executed_vars')]
        IN  /\ Len(fgdb'.oge) >= Len(fgdb.oge) + Len(op.ins)
            /\ \A k \in DOMAIN op.ins :
               LET src == fgdb'.oge[Len(fgdb.oge) + k][1]
                   v   == op.ins[k]
               IN  /\ src[1] = v
                   /\ src \in OGKeys(fgdb')
                   /\ src # new
                   \* no other node of that name has a greater token, and one
                   \* with an equal token was added before
                   /\ \A j \in Instances(fgdb', v) :
                         Key(fgdb'.og[j]) # new =>
                            /\ ~TokenLess(fgdb'.og[NodeOf(fgdb', src)], fgdb'.og[j])
                            /\ (~TokenLess(fgdb'.og[j], fgdb'.og[NodeOf(fgdb', src)])
                                   => j <= NodeOf(fgdb', src))
                   \* what this batch has produced of v supersedes the seed
                   /\ Minted(v) # <<>> => src = Minted(v)[Len(Minted(v))]

\* C5: each new edge starts at the most recent instance of its input (the
\* greatest version token, the last added on a tie) as of the execution; an
\* instance produced earlier in the batch is the source, not the seed or
\* placeholder of that name.
C5_MostRecentSource == [][C5_Step]_vars

\* z = f(x, y) then y = g(z, z), z having a placeholder: the edges of the
\* second triple start at the instance the first one minted
C5_Witness ==
    /\ pc = "exec"
    /\ operations = <<Triple("z", "f", <<"x", "y">>), Triple("y", "g", <<"z", "z">>)>>
    /\ Len(executed_vars) = 2
    /\ SeedKey("z") \in OGKeys(disk)
    /\ fgdb.oge[Len(fgdb.oge)] = <<executed_vars[1], executed_vars[2]>>
    /\ executed_vars[1][2] # NullTs

----------------------------------------------------------------------------
ConfigureSaved == pc = "idle" /\ outcome' = "saved"

C6_Step ==
    ConfigureSaved =>
        \* no attribute of an existing node is overwritten
        /\ NodesKept(disk, disk')
        /\ disk.mg \subseteq disk'.mg
        /\ \A n \in disk'.mg : n.name \in MGNames(disk) => n \in disk.mg
        /\ disk.fb \subseteq disk'.fb
        \* the same triple sequence again: nothing is added either
        /\ (operations' = hist.configured) =>
              /\ Cardinality(disk'.mg) = Cardinality(disk.mg)
              /\ Cardinality(disk'.mge) = Cardinality(disk.mge)
              /\ Len(disk'.og) = Len(disk.og)
              /\ Len(disk'.oge) = Len(disk.oge)
              /\ disk' = disk

\* C6: a configure pass overwrites no attribute of an existing MG or OG
\* node, and a configure pass over the triple sequence of the last completed
\* configure pass (execute passes may lie in between) leaves the node and
\* edge counts of both graphs, and the whole database, unchanged.
C6_Idempotent == [][C6_Step]_vars

\* configure over both triples, an execute pass, configure over both again
C6_Witness ==
    /\ pc = "exit"
    /\ hist.pass = "configure"
    /\ hist.repeated
    /\ outcome = "saved"
    /\ IntermediateVars(operations) # {}
    /\ PureIndependentVars(operations) # {}
    /\ Len(disk.oge) > 0

----------------------------------------------------------------------------
PlanOf(ops) ==
    /\ batch_file.written
    /\ Len(batch_file.steps) = Len(ops)
    /\ \A i \in DOMAIN ops :
          /\ batch_file.steps[i].fn = ops[i].fn
          /\ batch_file.steps[i].args = ops[i].ins
          /\ batch_file.steps[i].out = ops[i].out

InExecutePass == hist.pass = "execute" /\ pc \in {"exec", "exit"}

\* C8 (as claimed): every parsed triple sequence, the empty one included, is
\* compiled into a plan with one step per triple in parsed order.
C8_EveryInputCompiled == InExecutePass => PlanOf(operations)

\* C8 (amended): a non-empty sequence is compiled into one step per triple in
\* parsed order, duplicates kept; on the empty sequence the pass ends as
\* EmptyInput with no plan written; the database is as loaded when the loop
\* begins.
C8_PlanOrder ==
    InExecutePass =>
        /\ operations # <<>> => PlanOf(operations)
        /\ operations = <<>> => (~batch_file.written /\ outcome = "EmptyInput")
        /\ (pc = "exec" /\ idx = 1) => (fgdb = disk)

\* a file with the same assignment twice: two equal steps
C8_Witness ==
    /\ InExecutePass
    /\ Len(operations) = 2
    /\ operations[1] = operations[2]
    /\ PlanOf(operations)
    /\ batch_file.steps[1] = batch_file.steps[2]

----------------------------------------------------------------------------
RECURSIVE Count(_, _)
Count(s, e) ==
    IF s = <<>> THEN 0
    ELSE (IF Head(s) = e THEN 1 ELSE 0) + Count(Tail(s), e)

\* every node and edge of `old` is in `new`
Grows(old, new) ==
    /\ OGKeys(old) \subseteq OGKeys(new)
    /\ \A e \in Range(old.oge) : Count(old.oge, e) <= Count(new.oge, e)
    /\ MGNames(old) \subseteq MGNames(new)
    /\ old.mge \subseteq new.mge
    /\ old.fb \subseteq new.fb

\* C9: the snapshot never loses a node or an edge of MG or OG, whatever
\* passes run and however they end, and neither does the working copy of a
\* pass while the pass lasts.
C9_AppendOnly ==
    [][Grows(disk, disk') /\ (pc' # "idle" => Grows(fgdb, fgdb'))]_vars

\* a pass that was cut short, after passes that saved nodes and edges
C9_Witness ==
    /\ pc = "exit"
    /\ outcome = "aborted"
    /\ Len(disk.og) > 2
    /\ Len(disk.oge) > 0
    /\ Len(fgdb.og) > Len(disk.og)

----------------------------------------------------------------------------
AllInputs == UNION {Range(operations[i].ins) : i \in DOMAIN operations}
AllOutputs == {operations[i].out : i \in DOMAIN operations}

\* C7: the sets the classifier has derived satisfy
\* pure_independent \cap dependent = {} and
\* pure_independent \cup intermediate = independent, with independent the
\* set of all input names, dependent the set of all output names,
\* pure_independent their difference and intermediate their intersection
\* (the list of function_analysis.py holds the same pure names); they are
\* those of every reordering of the same triples.
C7_Classifier ==
    analysis.done =>
        /\ analysis.pure_independent \cap analysis.dependent = {}
        /\ analysis.pure_independent \cup analysis.intermediate = analysis.independent
        /\ analysis.independent = AllInputs
        /\ analysis.dependent = AllOutputs
        /\ analysis.pure_independent = AllInputs \ AllOutputs
        /\ analysis.intermediate = AllInputs \cap AllOutputs
        /\ analysis.functions = {operations[i].fn : i \in DOMAIN operations}
        /\ Range(analysis.xmy) = analysis.pure_independent

\* a producer and its consumer, classified and then swapped in the file
C7_Witness ==
    /\ analysis.done
    /\ analysis.reordered
    /\ Len(operations) = 2
    /\ analysis.intermediate # {}
    /\ analysis.pure_independent # {}
    /\ operations[2].out \in Range(operations[1].ins)
    /\ operations[1].out \notin Range(operations[2].ins)

----------------------------------------------------------------------------
\* what a line of the file is, by itself
IsSkipped(l) == Skippable(Strip(l))
IsAssignment(l) == ~IsSkipped(l) /\ MatchLine(Strip(l)).ok
IsRejected(l) == ~IsSkipped(l) /\ ~MatchLine(Strip(l)).ok

EntriesOf(ls) ==
    LET kept == SelectSeq(ls, IsAssignment)
    IN  [i \in DOMAIN kept |-> Entry(MatchLine(Strip(kept[i])))]

Read == SubSeq(lines, 1, lineno - 1)

\* C10: what the parser has returned after any number of lines is one entry
\* per line read that matches the pattern (as re.match applies it), in file
\* order; blank and '#' lines add neither an entry nor a diagnostic, every
\* other line adds a diagnostic and the loop goes on to the end of the file;
\* the pass ends as EmptyInput exactly when no triple was parsed, with the
\* database untouched and unsaved, and is saved otherwise.
C10_Parser ==
    /\ lineno \in 1..(Len(lines) + 1)
    /\ ope_list = EntriesOf(Read)
    /\ warnings = Len(SelectSeq(Read, IsRejected))
    /\ pc = "exit" =>
          /\ lineno = Len(lines) + 1
          /\ Len(operations) = Len(SelectSeq(lines, IsAssignment))
          /\ operations = parse_operation_file(EntriesOf(lines))
          /\ (outcome = "EmptyInput") <=> (operations = <<>>)
          /\ (outcome = "EmptyInput") => (disk = EmptyFgdb /\ fgdb = EmptyFgdb)
          /\ (operations # <<>>) => (outcome = "saved" /\ disk = fgdb /\ disk # EmptyFgdb)

\* a line that cannot be parsed, a comment, then an assignment: one triple
C10_Witness ==
    /\ pc = "exit"
    /\ Len(lines) = 3
    /\ IsRejected(lines[1])
    /\ IsSkipped(lines[2])
    /\ IsAssignment(lines[3])
    /\ warnings = 1
    /\ operations = <<Triple("z", "f", <<"x", "y">>)>>
    /\ outcome = "saved"

----------------------------------------------------------------------------
\* an execute pass over the triples of the last completed configure pass
ConfiguredPass == pc = "exec" /\ operations = hist.configured

\* the nodes the pass has added to the working copy so far
AddedKeys ==
    [k \in 1..(Len(fgdb.og) - Len(disk.og)) |-> Key(fgdb.og[Len(disk.og) + k])]

C11_Exact ==
    ConfiguredPass =>
        /\ Len(fgdb.og) >= Len(disk.og)
        /\ AddedKeys = executed_vars
        /\ fgdb.fb = disk.fb
        /\ fgdb.mg = disk.mg

C11_Step ==
    (ConfiguredPass /\ idx <= Len(operations)) =>
        LET op == operations[idx]
        IN  /\ MissingVars(fgdb, op.ins) = <<>>
            /\ \A v \in Range(op.ins) : Instances(fgdb, v) # {}
            /\ ~NeedsRegistration(fgdb, op.fn)
            /\ Handled =>
                  /\ pc' = "exec"
                  /\ fgdb'.fb = fgdb.fb
                  /\ fgdb'.mg = fgdb.mg
                  /\ IF Succeeded
                     THEN /\ Len(fgdb'.og) = Len(fgdb.og) + 1
                          /\ NodesKept(fgdb, fgdb')
                          /\ fgdb'.og[Len(fgdb'.og)].name = op.out
                          /\ Key(fgdb'.og[Len(fgdb'.og)]) =
                                executed_vars'[Len(executed_vars')]
                     ELSE fgdb'.og = fgdb.og

\* C11: once a configure pass over a triple sequence has completed, an
\* execute pass over the same sequence on that database never auto-heals:
\* at every triple each input name has an OG node and the function is
\* registered, and the OG nodes the pass adds are exactly the output
\* instances, one per triple that executed.
C11_ConfiguredNeverHeals == [](C11_Exact) /\ [][C11_Step]_vars

\* both triples of a configured sequence executed, the second consuming the
\* instance of the first: two nodes added, both of them outputs
C11_Witness ==
    /\ ConfiguredPass
    /\ operations = <<Triple("z", "f", <<"x", "y">>), Triple("y", "g", <<"z", "z">>)>>
    /\ idx = Len(operations) + 1
    /\ Len(executed_vars) = 2
    /\ Len(fgdb.og) = Len(disk.og) + 2
    /\ AddedKeys = executed_vars

====
